---- MODULE Spec2Model ----
(***************************************************************************)
(* A model of the notebook 5_BatchGraph.ipynb: graph batching (collate),   *)
(* the two-layer graph-convolution classifier (GCN / Classifier), the      *)
(* training cell and the evaluation cell.                                  *)
(*                                                                         *)
(* Tensors of floats are modelled as exact rationals <<num, den>> in       *)
(* lowest terms (den > 0).  The hidden dimension (256) is modelled as one  *)
(* scalar channel, so a Linear layer is a weight and a bias.               *)
(***************************************************************************)
EXTENDS Integers, Sequences, FiniteSets, TLC

\* Python's None
None == "None"

\* a loop variable that is not bound yet
Unbound == 0 - 1

\* the .grad of parameters that have received no gradient yet (None)
NoGrad == <<>>

(***************************************************************************)
(* Rational arithmetic                                                     *)
(***************************************************************************)
Abs(x) == IF x < 0 THEN -x ELSE x

RECURSIVE GCD(_, _)
GCD(a, b) == IF b = 0 THEN a ELSE GCD(b, a % b)

Rat(n, d) == LET g == GCD(Abs(n), d) IN <<n \div g, d \div g>>

FromInt(k) == <<k, 1>>

RAdd(x, y) == Rat(x[1] * y[2] + y[1] * x[2], x[2] * y[2])

RMulInt(k, x) == Rat(k * x[1], x[2])

RDivInt(x, k) == Rat(x[1], x[2] * k)

RLess(x, y) == x[1] * y[2] < y[1] * x[2]

\* the sum of a sequence of rationals (exact, so the grouping is immaterial)
RECURSIVE RSum(_)
RSum(s) ==
  IF s = <<>> THEN FromInt(0)
  ELSE IF Len(s) = 1 THEN s[1]
  ELSE LET m == Len(s) \div 2
       IN RAdd(RSum(SubSeq(s, 1, m)), RSum(SubSeq(s, m + 1, Len(s))))

\* torch.mean over the message dimension of one node's mailbox
torch_mean(s) == RDivInt(RSum(s), Len(s))

\* F.relu
relu(x) == IF x[1] < 0 THEN FromInt(0) ELSE x

\* nn.Linear with one input and one output channel
Linear(w, b, x) == RAdd(RMulInt(w, x), FromInt(b))

(***************************************************************************)
(* Graphs.  A graph is a record                                            *)
(*   n      the number of nodes (nodes are 1..n)                           *)
(*   inn    the edges, indexed by destination: inn[v] is the set of the    *)
(*          sources of the edges into node v                               *)
(*   ndata  the node-feature frame: a function from field names to         *)
(*          sequences of length n                                          *)
(*   bnn    batch_num_nodes: the node count of every component, in order   *)
(***************************************************************************)
NoData == [f \in {} |-> <<>>]

\* the graph with nodes 1..n and the given set of <<src, dst>> edges
MkGraph(n, edges) ==
  [n |-> n,
   inn |-> [v \in 1..n |-> {e[1] : e \in {e \in edges : e[2] = v}}],
   ndata |-> NoData,
   bnn |-> <<n>>]

RECURSIVE SortedSeq(_)
SortedSeq(S) ==
  IF S = {} THEN <<>>
  ELSE LET m == CHOOSE x \in S : \A y \in S : x <= y
       IN <<m>> \o SortedSeq(S \ {m})

InNbrs(g, v) == g.inn[v]

\* g.in_degrees()
in_degrees(g) == [v \in 1..g.n |-> Cardinality(InNbrs(g, v))]

RECURSIVE SumSeq(_)
SumSeq(s) ==
  IF s = <<>> THEN 0
  ELSE IF Len(s) = 1 THEN s[1]
  ELSE LET m == Len(s) \div 2
       IN SumSeq(SubSeq(s, 1, m)) + SumSeq(SubSeq(s, m + 1, Len(s)))

\* the node offset of component i of a batch with node counts bnn
Offset(bnn, i) == SumSeq(SubSeq(bnn, 1, i - 1))

\* faulty variant: the edges of a component keep their own node numbers
ShiftEdges_unshifted(inn, k) == inn

\* the incoming-edge sets of a component whose nodes are renumbered from k + 1
ShiftEdges(inn, k) == [v \in 1..Len(inn) |-> {u + k : u \in inn[v]}]

RECURSIVE ConcatAll(_)
ConcatAll(ss) ==
  IF ss = <<>> THEN <<>>
  ELSE IF Len(ss) = 1 THEN ss[1]
  ELSE LET m == Len(ss) \div 2
       IN ConcatAll(SubSeq(ss, 1, m)) \o ConcatAll(SubSeq(ss, m + 1, Len(ss)))

CommonFields(graphs) ==
  {f \in DOMAIN graphs[1].ndata : \A i \in 1..Len(graphs) : f \in DOMAIN graphs[i].ndata}

\* dgl.batch(graphs): the disjoint union, components in input order, the
\* node frames concatenated into a frame of the new graph.
dgl_batch(graphs) ==
  LET bnn == ConcatAll([i \in 1..Len(graphs) |-> graphs[i].bnn])
      ns  == [i \in 1..Len(graphs) |-> graphs[i].n]
  IN [n     |-> SumSeq(ns),
      inn   |-> ConcatAll([i \in 1..Len(graphs) |->
                              ShiftEdges(graphs[i].inn, Offset(ns, i))]),
      ndata |-> [f \in CommonFields(graphs) |->
                   ConcatAll([i \in 1..Len(graphs) |-> graphs[i].ndata[f]])],
      bnn   |-> bnn]

\* component i of a batched graph, its nodes renumbered from 1: what
\* splitting the batch by batch_num_nodes yields at position i
Component(g, i) ==
  LET off == Offset(g.bnn, i)
  IN [n     |-> g.bnn[i],
      inn   |-> [v \in 1..g.bnn[i] |-> {u - off : u \in g.inn[off + v]}],
      ndata |-> [f \in DOMAIN g.ndata |-> SubSeq(g.ndata[f], off + 1, off + g.bnn[i])],
      bnn   |-> <<g.bnn[i]>>]

(***************************************************************************)
(* The graph-convolution layer and the classifier                          *)
(***************************************************************************)
\* trainset.num_classes: the eight graph types of MiniGCDataset
NumClasses == 8

SetField(nd, f, val) == [x \in (DOMAIN nd) \cup {f} |-> IF x = f THEN val ELSE nd[x]]

PopField(nd, f) == [x \in (DOMAIN nd) \ {f} |-> nd[x]]

\* the order in which a pass visits the nodes of g
NodeOrder(g, dir) ==
  IF dir = "asc" THEN [i \in 1..g.n |-> i] ELSE [i \in 1..g.n |-> g.n + 1 - i]

\* msg = fn.copy_src(src='h', out='m'): the message on an edge is the
\* feature 'h' of its source node
msg(nd, src) == nd.h[src]

\* reduce(nodes): the average of the mailbox overwrites 'h'
reduce(mailbox_m) == [h |-> torch_mean(mailbox_m)]

\* the mailbox of every node: one message per incoming edge, all of them
\* computed from the frame nd before any node is reduced
Mailbox(g, nd) ==
  [v \in 1..g.n |->
     LET srcs == SortedSeq(InNbrs(g, v))
     IN [i \in 1..Len(srcs) |-> msg(nd, srcs[i])]]

\* the receive phase: the nodes of order are reduced one after the other, a
\* node without message is skipped (the visit of a long order is split in
\* two halves, the first half before the second)
RECURSIVE recv(_, _, _)
recv(h, mailbox, order) ==
  IF order = <<>> THEN h
  ELSE IF Len(order) = 1
  THEN LET v == order[1]
       IN IF Len(mailbox[v]) = 0 THEN h
          ELSE SubSeq(h, 1, v - 1) \o <<reduce(mailbox[v]).h>>
               \o SubSeq(h, v + 1, Len(h))
  ELSE LET m  == Len(order) \div 2
           h1 == recv(h, mailbox, SubSeq(order, 1, m))
       IN IF Len(h1) = Len(h) THEN recv(h1, mailbox, SubSeq(order, m + 1, Len(order)))
          ELSE h1

\* faulty variant: every node is reduced from the features as they are when
\* it is visited, so a node visited later sees its neighbours' new values
RECURSIVE recv_in_place(_, _, _)
recv_in_place(g, h, order) ==
  IF order = <<>> THEN h
  ELSE LET v    == Head(order)
           srcs == SortedSeq(InNbrs(g, v))
           hv   == IF srcs = <<>> THEN h[v]
                   ELSE torch_mean([i \in 1..Len(srcs) |-> h[srcs[i]]])
       IN recv_in_place(g, SubSeq(h, 1, v - 1) \o <<hv>> \o SubSeq(h, v + 1, Len(h)),
                        Tail(order))

update_all_in_place(g, dir) ==
  [g EXCEPT !.ndata = SetField(@, "h", recv_in_place(g, g.ndata.h, NodeOrder(g, dir)))]

\* g.update_all(msg, reduce): send on all edges, then reduce every node
\* that received a message; a node without incoming edge keeps its 'h'
update_all(g, dir) ==
  [g EXCEPT !.ndata = SetField(@, "h",
      recv(g.ndata.h, Mailbox(g, g.ndata), NodeOrder(g, dir)))]

\* NodeApplyModule.forward: h = activation(linear(node.data['h']))
NodeApplyModule_forward(mod, h) == [h |-> relu(Linear(mod.w, mod.b, h))]

\* g.apply_nodes(func=self.apply_mod)
apply_nodes(g, mod) ==
  [g EXCEPT !.ndata = SetField(@, "h",
      [v \in 1..g.n |-> NodeApplyModule_forward(mod, g.ndata.h[v]).h])]

\* GCN.forward, statement by statement
GCN_set_h(g, feature) == [g EXCEPT !.ndata = SetField(@, "h", feature)]

\* faulty variant: 'h' is read but left on the graph
GCN_read_h(g) == [g |-> g, out |-> g.ndata.h]

GCN_pop_h(g) == [g |-> [g EXCEPT !.ndata = PopField(@, "h")], out |-> g.ndata.h]

GCN_forward(mod, g, feature, dir) ==
  GCN_pop_h(apply_nodes(update_all(GCN_set_h(g, feature), dir), mod))

\* dgl.mean_nodes(g, 'h'): one row per component of the batch
mean_nodes(g, f) ==
  [i \in 1..Len(g.bnn) |->
     torch_mean(SubSeq(g.ndata[f], Offset(g.bnn, i) + 1, Offset(g.bnn, i) + g.bnn[i]))]

\* h = g.in_degrees().view(-1, 1).float()
InitialFeature(g) == [v \in 1..g.n |-> FromInt(in_degrees(g)[v])]

\* self.classify(hg): one row of NumClasses logits per component
classify(lin, hg) ==
  [i \in 1..Len(hg) |-> [c \in 1..NumClasses |-> Linear(lin.w[c], lin.b[c], hg[i])]]

RECURSIVE ApplyLayers(_, _, _, _)
ApplyLayers(layers, g, h, dir) ==
  IF layers = <<>> THEN [g |-> g, out |-> h]
  ELSE LET r == GCN_forward(Head(layers), g, h, dir)
       IN ApplyLayers(Tail(layers), r.g, r.out, dir)

\* Classifier.forward: the result and the graph as the call leaves it
Classifier_forward(params, g, dir) ==
  LET r  == ApplyLayers(params.layers, g, InitialFeature(g), dir)
      g2 == [r.g EXCEPT !.ndata = SetField(@, "h", r.out)]
  IN [g |-> g2, out |-> classify(params.classify, mean_nodes(g2, "h"))]

(***************************************************************************)
(* collate                                                                 *)
(***************************************************************************)
\* torch.tensor(labels): a one-dimensional tensor, one entry per label
torch_tensor(labels) == labels

\* faulty variant: the labels come out in reverse order
collate_labels_reversed(samples) ==
  LET graphs == [i \in 1..Len(samples) |-> samples[i][1]]
      labels == [i \in 1..Len(samples) |-> samples[Len(samples) + 1 - i][2]]
  IN [bg |-> dgl_batch(graphs), label |-> torch_tensor(labels)]

\* collate(samples): graphs, labels = map(list, zip(*samples)), then the
\* batch of the graphs and the tensor of the labels
collate(samples) ==
  LET graphs == [i \in 1..Len(samples) |-> samples[i][1]]
      labels == [i \in 1..Len(samples) |-> samples[i][2]]
  IN [bg |-> dgl_batch(graphs), label |-> torch_tensor(labels)]

(***************************************************************************)
(* Inputs of the bounded check                                             *)
(***************************************************************************)
MaxNodes == 3

MaxBatch == 2

Both(E) == E \cup {<<e[2], e[1]>> : e \in E}

SelfLoops(n) == {<<v, v>> : v \in 1..n}

\* an undirected ring with self loops
Cycle(n) == MkGraph(n, Both({<<v, (v % n) + 1>> : v \in 1..n}) \cup SelfLoops(n))

\* an undirected star centred at node 1, with self loops
Star(n) == MkGraph(n, Both({<<1, v>> : v \in 2..n}) \cup SelfLoops(n))

\* a directed path 1 -> 2 -> ... -> n without self loops: node 1 has no
\* incoming edge
Path(n) == MkGraph(n, {<<v, v + 1>> : v \in 1..(n - 1)})

GraphFamily == {Cycle(n) : n \in 3..MaxNodes} \cup {Star(n) : n \in 2..MaxNodes}
               \cup {Path(n) : n \in 2..MaxNodes}

\* the labels of a list of samples: two rows of class labels, different at
\* every two positions
LabelRows == {[i \in 1..MaxBatch |-> (3 * i + k) % NumClasses] : k \in {0, 5}}

Lin(w, b) == [w |-> w, b |-> b]

\* a few points of the parameter space (conv layer 1, conv layer 2, classify)
ParamSpace ==
  << [layers |-> <<Lin(1, 0), Lin(2, -3)>>,
      classify |-> Lin(<<1, -1, 2, 0, 3, -2, 1, 0>>, <<0, 4, -1, 2, -5, 3, 1, 0>>)],
     [layers |-> <<Lin(-1, 4), Lin(1, 1)>>,
      classify |-> Lin(<<2, 1, -1, 3, 0, -3, 1, 1>>, <<1, 0, 3, -4, 2, 5, 0, -1>>)],
     [layers |-> <<Lin(3, -2), Lin(1, 0)>>,
      classify |-> Lin(<<0, 1, 1, -2, 2, 1, -1, 3>>, <<2, 2, 0, 1, -1, 0, 4, -3>>)] >>

SeqsUpTo(S, k) == UNION {[1..m -> S] : m \in 1..k}

\* the non-empty lists of (graph, label) pairs collate is called with
SampleLists ==
  {[i \in 1..Len(gs) |-> <<gs[i], row[i]>>] :
     gs \in SeqsUpTo(GraphFamily, MaxBatch), row \in LabelRows}

(***************************************************************************)
(* Datasets, random numbers, loss, gradient and optimizer                  *)
(***************************************************************************)
TrainSize == 320

TestSize == 80

BatchSize == 32

NumEpochs == 80

MaxSeed == 1

\* a complete graph with self loops
Clique(n) == MkGraph(n, {<<u, v>> : u \in 1..n, v \in 1..n})

ClassGraph(c, n) ==
  CASE c % 3 = 0 -> Cycle(n)
    [] c % 3 = 1 -> Star(n)
    [] OTHER     -> Clique(n)

\* a dataset keeps each of its graphs as <<class, node count, node data>>:
\* the graph object is the graph of that class and size with that node data
GraphOf(d) == [ClassGraph(d[1], d[2]) EXCEPT !.ndata = d[3]]

\* MiniGCDataset(num, min, max): num pairs <<graph, label>>, every class
\* with the same number of graphs, every graph with self loops; the node
\* counts (10 to 20 in the notebook) are scaled down to 2..MaxNodes
MiniGCDataset(num, seed) ==
  [i \in 1..num |->
     LET c == ((i - 1) * NumClasses) \div num
     IN <<<<c, 2 + ((seed + 3 * i) % (MaxNodes - 1)), NoData>>, c>>]

\* the state of torch's random generator and its successor
NextRng(r) == (5 * r + 3) % 64

\* RandomSampler: a permutation of 1..n drawn from the generator
RandPerm(n, r) ==
  LET a == <<1, 3, 7, 9, 11, 13, 17, 19>>[(r % 8) + 1]
  IN [i \in 1..n |-> ((a * (i - 1) + r) % n) + 1]

\* BatchSampler with drop_last = False
Chunks(s, b) ==
  [k \in 1..((Len(s) + b - 1) \div b) |->
     SubSeq(s, (k - 1) * b + 1, IF k * b < Len(s) THEN k * b ELSE Len(s))]

\* iter(data_loader): shuffle = True draws a fresh permutation
LoaderIter(r) == [rest |-> Chunks(RandPerm(TrainSize, r), BatchSize), n |-> 0]

IndexOf(sq, x) == CHOOSE i \in 1..Len(sq) : sq[i] = x

RowMax(row) == CHOOSE m \in {row[c] : c \in 1..Len(row)} :
                 \A c \in 1..Len(row) : ~RLess(m, row[c])

\* the index (from 0) of the first largest entry of a row
ArgMax(row) ==
  LET m == RowMax(row)
  IN (CHOOSE c \in 1..Len(row) : row[c] = m /\ \A d \in 1..(c - 1) : row[d] # m) - 1

\* loss_func = nn.CrossEntropyLoss(): the mean over the batch of
\* logsumexp(row) - row[label]; logsumexp is modelled by the row's maximum
loss_func(pred, lab) ==
  torch_mean([i \in 1..Len(pred) |->
                RAdd(RowMax(pred[i]), RMulInt(-1, pred[i][lab[i] + 1]))])

Count(S) == Cardinality(S)

\* the gradient loss.backward() adds to .grad, represented by the gradient
\* with respect to classify.bias
GradOf(pred, lab) ==
  [c \in 1..NumClasses |->
     Rat(Count({i \in 1..Len(pred) : ArgMax(pred[i]) + 1 = c})
         - Count({i \in 1..Len(pred) : lab[i] + 1 = c}), Len(pred))]

\* faulty variant: the gradients of the previous minibatch are kept
ZeroGrad_keeping(g) == g

ZeroGrad(g) == IF g = NoGrad THEN g ELSE [c \in 1..NumClasses |-> FromInt(0)]

AccumulateGrad(g, d) ==
  IF g = NoGrad THEN d ELSE [c \in 1..NumClasses |-> RAdd(g[c], d[c])]

\* optimizer.step(): Adam skips parameters without gradient; the numeric
\* update is modelled as a move to the next point of the parameter grid
AdamStep(p, g) ==
  IF g = NoGrad THEN p ELSE ParamSpace[(IndexOf(ParamSpace, p) % Len(ParamSpace)) + 1]

\* the integer acc followed by the first k decimal digits of rem / d, and
\* the remainder left, by long division
RECURSIVE Decimals(_, _, _, _)
Decimals(acc, rem, d, k) ==
  IF k = 0 THEN <<acc, rem>>
  ELSE Decimals(acc * 10 + (rem * 10) \div d, (rem * 10) % d, d, k - 1)

RECURSIVE Pow10(_)
Pow10(k) == IF k = 0 THEN 1 ELSE 10 * Pow10(k - 1)

\* '{:.4f}'.format(x) and '{:4f}'.format(x): x rounded to the nearest number
\* with 4 and with 6 decimals
RoundTo(x, k) ==
  LET n == Abs(x[1])
      r == Decimals(n \div x[2], n % x[2], x[2], k)
      f == IF 2 * r[2] >= x[2] THEN r[1] + 1 ELSE r[1]
  IN Rat(IF x[1] < 0 THEN 0 - f ELSE f, Pow10(k))

Format4f(x) == RoundTo(x, 4)

Format6f(x) == RoundTo(x, 6)

(***************************************************************************)
(* Tensors of the evaluation cell: a shape and the rows                    *)
(***************************************************************************)
Tensor1(s) == [shape |-> <<Len(s)>>, data |-> s]

\* t.view(-1, 1) of a one-dimensional tensor: a column
ViewColumn(t) == [shape |-> <<t.shape[1], 1>>, data |-> [i \in 1..t.shape[1] |-> <<t.data[i]>>]]

\* the rows of a tensor as a two-dimensional array; a one-dimensional
\* tensor broadcasts as a single row
Rows(t) == IF Len(t.shape) = 1 THEN <<t.data>> ELSE t.data

Dim(t, k) == IF Len(t.shape) = 1 THEN (IF k = 1 THEN 1 ELSE t.shape[1]) ELSE t.shape[k]

Bmax(a, b) == IF a < b THEN b ELSE a

\* a == b with broadcasting: a boolean tensor
TensorEq(a, b) ==
  LET r == Bmax(Dim(a, 1), Dim(b, 1))
      c == Bmax(Dim(a, 2), Dim(b, 2))
      At(t, i, j) == Rows(t)[IF Dim(t, 1) = 1 THEN 1 ELSE i][IF Dim(t, 2) = 1 THEN 1 ELSE j]
  IN [shape |-> <<r, c>>,
      data |-> [i \in 1..r |-> [j \in 1..c |-> At(a, i, j) = At(b, i, j)]]]

\* t.sum().item() of a boolean tensor
TensorSum(t) ==
  Count({ij \in (1..t.shape[1]) \X (1..t.shape[2]) : t.data[ij[1]][ij[2]]})

\* len(t)
TensorLen(t) == t.shape[1]

\* (test_Y == pred.float()).sum().item() / len(test_Y) * 100
Accuracy(y, pred) == RMulInt(100, Rat(TensorSum(TensorEq(y, pred)), TensorLen(y)))

\* torch.softmax(logits, 1) keeps the order of every row's entries; a row of
\* probabilities is represented by the row of logits it comes from
torch_softmax(logits) == [shape |-> <<Len(logits), NumClasses>>, data |-> logits]

\* torch.max(probs_Y, 1)[1].view(-1, 1)
argmax_column(probs) == ViewColumn(Tensor1([i \in 1..probs.shape[1] |-> ArgMax(probs.data[i])]))

\* torch.multinomial(probs_Y, 1): one class per row, drawn from the generator
\* (every class has a positive probability)
torch_multinomial(probs, r) ==
  [shape |-> <<probs.shape[1], 1>>,
   data |-> [i \in 1..probs.shape[1] |-> <<(r + 3 * i) % NumClasses>>]]

\* [dataset[i] for i in idx]: the pairs (graph, label) the loader hands to collate
SamplesAt(dataset, idx) ==
  [k \in 1..Len(idx) |-> <<GraphOf(dataset[idx[k]][1]), dataset[idx[k]][2]>>]

(***************************************************************************)
(* State                                                                   *)
(***************************************************************************)
VARIABLES
  pc,            \* the statement about to run
  samples,       \* collate's argument: a list of <<graph, label>> pairs
  bg,            \* the batched graph
  label,         \* the label tensor
  params,        \* the model's parameters (model.parameters())
  h,             \* Classifier.forward's local h
  layer,         \* Classifier.forward's position in self.layers
  hg,            \* Classifier.forward's local hg
  prediction,    \* the value model(bg) returns
  rng,           \* the state of torch's random generator
  trainset,      \* MiniGCDataset(320, 10, 20)
  testset,       \* MiniGCDataset(80, 10, 20)
  training,      \* model.training, set by model.train() and model.eval()
  grads,         \* the .grad of the parameters (None before the first backward)
  loss,          \* the loss of the current minibatch
  epoch,         \* the loop variable of "for epoch in range(80)"
  iter,          \* the loop variable of enumerate(data_loader)
  loader,        \* the iterator over data_loader: batches left, enumerate's count
  indices,       \* the dataset indices of the current minibatch
  epoch_loss,
  epoch_losses,
  out,           \* the lines printed so far
  calls,         \* history: how many times each step of a minibatch has run
  loss_hist,     \* history: the minibatch losses computed in the current epoch
  error,         \* the step whose exception ended the run, if any
  test_bg,
  test_Y,
  probs_Y,
  sampled_Y,
  argmax_Y

vars == <<pc, samples, bg, label, params, h, layer, hg, prediction, rng,
          trainset, testset, training, grads, loss, epoch, iter, loader,
          indices, epoch_loss, epoch_losses, out, calls, loss_hist, error,
          test_bg, test_Y, probs_Y, sampled_Y, argmax_Y>>

Bump(c, f) == [c EXCEPT ![f] = @ + 1]

\* the number of minibatches of an epoch: len(data_loader)
BatchesPerEpoch == (TrainSize + BatchSize - 1) \div BatchSize

(***************************************************************************)
(* Classifier.forward on a collated batch, statement by statement          *)
(***************************************************************************)
NoTraining ==
  /\ rng = 0 /\ trainset = <<>> /\ testset = <<>> /\ training = TRUE
  /\ grads = NoGrad /\ loss = None /\ epoch = Unbound /\ iter = Unbound
  /\ loader = None /\ indices = None /\ epoch_loss = None
  /\ epoch_losses = <<>> /\ out = <<>> /\ loss_hist = <<>> /\ error = None
  /\ calls = [batch |-> 0, forward |-> 0, loss |-> 0, zero_grad |-> 0,
              backward |-> 0, step |-> 0]
  /\ test_bg = None /\ test_Y = None /\ probs_Y = None /\ sampled_Y = None
  /\ argmax_Y = None

InitFwd ==
  /\ pc = "collate"
  /\ samples \in SampleLists
  /\ params \in {ParamSpace[i] : i \in 1..Len(ParamSpace)}
  /\ bg = None /\ label = None /\ h = None /\ layer = 0 /\ hg = None
  /\ prediction = None
  /\ NoTraining

\* bg, label = collate(samples)
Collate ==
  /\ pc = "collate"
  /\ \E r \in {collate(samples)} :
       bg' = r.bg /\ label' = r.label
  /\ pc' = "in_degrees"
  /\ UNCHANGED <<samples, params, h, layer, hg, prediction, rng, trainset,
                 testset, training, grads, loss, epoch, iter, loader,
                 indices, epoch_loss, epoch_losses, out, calls, loss_hist,
                 error, test_bg, test_Y, probs_Y, sampled_Y, argmax_Y>>

\* h = g.in_degrees().view(-1, 1).float(), and the loop over self.layers starts
FwdInDegrees ==
  /\ pc = "in_degrees"
  /\ h' = InitialFeature(bg)
  /\ layer' = 1
  /\ pc' = "set_h"
  /\ UNCHANGED <<samples, bg, label, params, hg, prediction, rng, trainset,
                 testset, training, grads, loss, epoch, iter, loader,
                 indices, epoch_loss, epoch_losses, out, calls, loss_hist,
                 error, test_bg, test_Y, probs_Y, sampled_Y, argmax_Y>>

\* GCN.forward: g.ndata['h'] = feature
ConvSetH ==
  /\ pc = "set_h"
  /\ bg' = GCN_set_h(bg, h)
  /\ pc' = "update_all"
  /\ UNCHANGED <<samples, label, params, h, layer, hg, prediction, rng,
                 trainset, testset, training, grads, loss, epoch, iter,
                 loader, indices, epoch_loss, epoch_losses, out, calls,
                 loss_hist, error, test_bg, test_Y, probs_Y, sampled_Y,
                 argmax_Y>>

\* GCN.forward: g.update_all(msg, reduce), the nodes visited in either order
ConvUpdateAll ==
  /\ pc = "update_all"
  /\ \E dir \in {"asc", "desc"} : bg' = update_all(bg, dir)
  /\ pc' = "apply_nodes"
  /\ UNCHANGED <<samples, label, params, h, layer, hg, prediction, rng,
                 trainset, testset, training, grads, loss, epoch, iter,
                 loader, indices, epoch_loss, epoch_losses, out, calls,
                 loss_hist, error, test_bg, test_Y, probs_Y, sampled_Y,
                 argmax_Y>>

\* GCN.forward: g.apply_nodes(func=self.apply_mod)
ConvApplyNodes ==
  /\ pc = "apply_nodes"
  /\ bg' = apply_nodes(bg, params.layers[layer])
  /\ pc' = "pop"
  /\ UNCHANGED <<samples, label, params, h, layer, hg, prediction, rng,
                 trainset, testset, training, grads, loss, epoch, iter,
                 loader, indices, epoch_loss, epoch_losses, out, calls,
                 loss_hist, error, test_bg, test_Y, probs_Y, sampled_Y,
                 argmax_Y>>

\* GCN.forward: return g.ndata.pop('h'), assigned to h by the caller
ConvPop ==
  /\ pc = "pop"
  /\ \E r \in {GCN_pop_h(bg)} :
       bg' = r.g /\ h' = r.out
  /\ layer' = layer + 1
  /\ pc' = IF layer < Len(params.layers) THEN "set_h" ELSE "write_h"
  /\ UNCHANGED <<samples, label, params, hg, prediction, rng, trainset,
                 testset, training, grads, loss, epoch, iter, loader,
                 indices, epoch_loss, epoch_losses, out, calls, loss_hist,
                 error, test_bg, test_Y, probs_Y, sampled_Y, argmax_Y>>

\* g.ndata['h'] = h
FwdWriteH ==
  /\ pc = "write_h"
  /\ bg' = [bg EXCEPT !.ndata = SetField(@, "h", h)]
  /\ pc' = "mean_nodes"
  /\ UNCHANGED <<samples, label, params, h, layer, hg, prediction, rng,
                 trainset, testset, training, grads, loss, epoch, iter,
                 loader, indices, epoch_loss, epoch_losses, out, calls,
                 loss_hist, error, test_bg, test_Y, probs_Y, sampled_Y,
                 argmax_Y>>

\* hg = dgl.mean_nodes(g, 'h')
FwdMeanNodes ==
  /\ pc = "mean_nodes"
  /\ hg' = mean_nodes(bg, "h")
  /\ pc' = "classify"
  /\ UNCHANGED <<samples, bg, label, params, h, layer, prediction, rng,
                 trainset, testset, training, grads, loss, epoch, iter,
                 loader, indices, epoch_loss, epoch_losses, out, calls,
                 loss_hist, error, test_bg, test_Y, probs_Y, sampled_Y,
                 argmax_Y>>

\* return self.classify(hg)
FwdClassify ==
  /\ pc = "classify"
  /\ prediction' = classify(params.classify, hg)
  /\ pc' = "returned"
  /\ UNCHANGED <<samples, bg, label, params, h, layer, hg, rng, trainset,
                 testset, training, grads, loss, epoch, iter, loader,
                 indices, epoch_loss, epoch_losses, out, calls, loss_hist,
                 error, test_bg, test_Y, probs_Y, sampled_Y, argmax_Y>>

NextFwd ==
  \/ Collate
  \/ FwdInDegrees
  \/ ConvSetH
  \/ ConvUpdateAll
  \/ ConvApplyNodes
  \/ ConvPop
  \/ FwdWriteH
  \/ FwdMeanNodes
  \/ FwdClassify

SpecFwd == InitFwd /\ [][NextFwd]_vars

(***************************************************************************)
(* The training cell and the evaluation cell                               *)
(***************************************************************************)
Init ==
  /\ pc = "for_epoch"
  /\ \E seed \in 0..MaxSeed :
       /\ trainset = MiniGCDataset(TrainSize, seed)
       /\ testset = MiniGCDataset(TestSize, seed + 1)
       /\ params = ParamSpace[(seed % Len(ParamSpace)) + 1]
       /\ rng = NextRng(seed)
  /\ training = TRUE
  /\ grads = NoGrad /\ loss = None /\ epoch = Unbound /\ iter = Unbound
  /\ loader = None /\ indices = None /\ epoch_loss = None
  /\ epoch_losses = <<>> /\ out = <<>> /\ loss_hist = <<>> /\ error = None
  /\ calls = [batch |-> 0, forward |-> 0, loss |-> 0, zero_grad |-> 0,
              backward |-> 0, step |-> 0]
  /\ bg = None /\ label = None /\ prediction = None
  /\ test_bg = None /\ test_Y = None /\ probs_Y = None /\ sampled_Y = None
  /\ argmax_Y = None
  /\ samples = None /\ h = None /\ layer = 0 /\ hg = None

\* the call model(g) of the training and evaluation cells
model(p, g) == Classifier_forward(p, g, "asc")

\* faulty variant: the labels stay a one-dimensional tensor
test_Y_flat(labels) == Tensor1(labels)

\* test_Y = torch.tensor(test_Y).float().view(-1, 1)
test_Y_tensor(labels) == ViewColumn(Tensor1(labels))

\* for epoch in range(80): the next epoch, or the end of the loop
ForEpoch ==
  /\ pc = "for_epoch"
  /\ epoch' = IF epoch = Unbound THEN 0
              ELSE IF epoch + 1 < NumEpochs THEN epoch + 1 ELSE epoch
  /\ pc' = IF epoch = Unbound \/ epoch + 1 < NumEpochs THEN "reset_loss" ELSE "plot"
  /\ UNCHANGED <<samples, bg, label, params, h, layer, hg, prediction, rng,
                 trainset, testset, training, grads, loss, iter, loader,
                 indices, epoch_loss, epoch_losses, out, calls, loss_hist,
                 error, test_bg, test_Y, probs_Y, sampled_Y, argmax_Y>>

\* faulty variant: the accumulator is set to 0 once, before the first epoch
ResetLoss_once ==
  /\ pc = "reset_loss"
  /\ epoch_loss' = IF epoch = 0 THEN FromInt(0) ELSE epoch_loss
  /\ loss_hist' = <<>>
  /\ pc' = "iter_loader"
  /\ UNCHANGED <<samples, bg, label, params, h, layer, hg, prediction, rng,
                 trainset, testset, training, grads, loss, epoch, iter,
                 loader, indices, epoch_losses, out, calls, error,
                 test_bg, test_Y, probs_Y, sampled_Y, argmax_Y>>

\* epoch_loss = 0
ResetLoss ==
  /\ pc = "reset_loss"
  /\ epoch_loss' = FromInt(0)
  /\ loss_hist' = <<>>
  /\ pc' = "iter_loader"
  /\ UNCHANGED <<samples, bg, label, params, h, layer, hg, prediction, rng,
                 trainset, testset, training, grads, loss, epoch, iter,
                 loader, indices, epoch_losses, out, calls, error,
                 test_bg, test_Y, probs_Y, sampled_Y, argmax_Y>>

\* enumerate(data_loader): a new iterator, a new permutation
IterLoader ==
  /\ pc = "iter_loader"
  /\ loader' = LoaderIter(rng)
  /\ rng' = NextRng(rng)
  /\ pc' = "next_batch"
  /\ UNCHANGED <<samples, bg, label, params, h, layer, hg, prediction,
                 trainset, testset, training, grads, loss, epoch, iter,
                 indices, epoch_loss, epoch_losses, out, calls, loss_hist,
                 error, test_bg, test_Y, probs_Y, sampled_Y, argmax_Y>>

\* the loader hands out the next minibatch, built by collate
NextBatch ==
  /\ pc = "next_batch"
  /\ loader.rest # <<>>
  /\ indices' = Head(loader.rest)
  /\ loader' = [rest |-> Tail(loader.rest), n |-> loader.n + 1]
  /\ iter' = loader.n
  /\ \E r \in {collate(SamplesAt(trainset, Head(loader.rest)))} :
       bg' = r.bg /\ label' = r.label
  /\ calls' = Bump(calls, "batch")
  /\ pc' = "forward"
  /\ UNCHANGED <<samples, params, h, layer, hg, prediction, rng, trainset,
                 testset, training, grads, loss, epoch, epoch_loss,
                 epoch_losses, out, loss_hist, error, test_bg, test_Y,
                 probs_Y, sampled_Y, argmax_Y>>

\* the loader is exhausted: the inner loop ends
LoaderExhausted ==
  /\ pc = "next_batch"
  /\ loader.rest = <<>>
  /\ pc' = "divide"
  /\ UNCHANGED <<samples, bg, label, params, h, layer, hg, prediction, rng,
                 trainset, testset, training, grads, loss, epoch, iter,
                 loader, indices, epoch_loss, epoch_losses, out, calls,
                 loss_hist, error, test_bg, test_Y, probs_Y, sampled_Y,
                 argmax_Y>>

\* faulty variant: the forward pass writes its node features to the dataset's
\* graphs as well
Forward_through ==
  /\ pc = "forward"
  /\ \E r \in {model(params, bg)} :
       /\ prediction' = r.out
       /\ bg' = r.g
       /\ trainset' = [k \in 1..Len(trainset) |->
                         IF \E j \in 1..Len(indices) : indices[j] = k
                         THEN <<[trainset[k][1] EXCEPT ![3] =
                                   Component(r.g, IndexOf(indices, k)).ndata],
                                trainset[k][2]>>
                         ELSE trainset[k]]
  /\ calls' = Bump(calls, "forward")
  /\ pc' = "loss"
  /\ UNCHANGED <<samples, label, params, h, layer, hg, rng, testset, training,
                 grads, loss, epoch, iter, loader, indices, epoch_loss,
                 epoch_losses, out, loss_hist, error, test_bg, test_Y,
                 probs_Y, sampled_Y, argmax_Y>>

\* prediction = model(bg)
Forward ==
  /\ pc = "forward"
  /\ \E r \in {model(params, bg)} :
       prediction' = r.out /\ bg' = r.g
  /\ calls' = Bump(calls, "forward")
  /\ pc' = "loss"
  /\ UNCHANGED <<samples, label, params, h, layer, hg, rng, trainset,
                 testset, training, grads, loss, epoch, iter, loader,
                 indices, epoch_loss, epoch_losses, out, loss_hist, error,
                 test_bg, test_Y, probs_Y, sampled_Y, argmax_Y>>

\* loss = loss_func(prediction, label)
Loss ==
  /\ pc = "loss"
  /\ \E l \in {loss_func(prediction, label)} :
       loss' = l /\ loss_hist' = Append(loss_hist, l)
  /\ calls' = Bump(calls, "loss")
  /\ pc' = "zero_grad"
  /\ UNCHANGED <<samples, bg, label, params, h, layer, hg, prediction, rng,
                 trainset, testset, training, grads, epoch, iter, loader,
                 indices, epoch_loss, epoch_losses, out, error, test_bg,
                 test_Y, probs_Y, sampled_Y, argmax_Y>>

\* optimizer.zero_grad()
OptimizerZeroGrad ==
  /\ pc = "zero_grad"
  /\ grads' = ZeroGrad(grads)
  /\ calls' = Bump(calls, "zero_grad")
  /\ pc' = "backward"
  /\ UNCHANGED <<samples, bg, label, params, h, layer, hg, prediction, rng,
                 trainset, testset, training, loss, epoch, iter, loader,
                 indices, epoch_loss, epoch_losses, out, loss_hist, error,
                 test_bg, test_Y, probs_Y, sampled_Y, argmax_Y>>

\* loss.backward(): the gradient of this loss is added to .grad
Backward ==
  /\ pc = "backward"
  /\ grads' = AccumulateGrad(grads, GradOf(prediction, label))
  /\ calls' = Bump(calls, "backward")
  /\ pc' = "step"
  /\ UNCHANGED <<samples, bg, label, params, h, layer, hg, prediction, rng,
                 trainset, testset, training, loss, epoch, iter, loader,
                 indices, epoch_loss, epoch_losses, out, loss_hist, error,
                 test_bg, test_Y, probs_Y, sampled_Y, argmax_Y>>

\* optimizer.step()
OptimizerStep ==
  /\ pc = "step"
  /\ params' = AdamStep(params, grads)
  /\ calls' = Bump(calls, "step")
  /\ pc' = "accumulate"
  /\ UNCHANGED <<samples, bg, label, h, layer, hg, prediction, rng, trainset,
                 testset, training, grads, loss, epoch, iter, loader,
                 indices, epoch_loss, epoch_losses, out, loss_hist, error,
                 test_bg, test_Y, probs_Y, sampled_Y, argmax_Y>>

\* epoch_loss += loss.detach().item()
Accumulate ==
  /\ pc = "accumulate"
  /\ epoch_loss' = RAdd(epoch_loss, loss)
  /\ pc' = "next_batch"
  /\ UNCHANGED <<samples, bg, label, params, h, layer, hg, prediction, rng,
                 trainset, testset, training, grads, loss, epoch, iter,
                 loader, indices, epoch_losses, out, calls, loss_hist, error,
                 test_bg, test_Y, probs_Y, sampled_Y, argmax_Y>>

\* epoch_loss /= (iter + 1)
Divide ==
  /\ pc = "divide"
  /\ epoch_loss' = RDivInt(epoch_loss, iter + 1)
  /\ pc' = "print"
  /\ UNCHANGED <<samples, bg, label, params, h, layer, hg, prediction, rng,
                 trainset, testset, training, grads, loss, epoch, iter,
                 loader, indices, epoch_losses, out, calls, loss_hist, error,
                 test_bg, test_Y, probs_Y, sampled_Y, argmax_Y>>

\* faulty variant: the epochs are numbered from 1
PrintEpoch_from_one ==
  /\ pc = "print"
  /\ out' = Append(out, [kind |-> "epoch", epoch |-> epoch + 1, value |-> Format4f(epoch_loss)])
  /\ pc' = "append"
  /\ UNCHANGED <<samples, bg, label, params, h, layer, hg, prediction, rng,
                 trainset, testset, training, grads, loss, epoch, iter,
                 loader, indices, epoch_loss, epoch_losses, calls, loss_hist,
                 error, test_bg, test_Y, probs_Y, sampled_Y, argmax_Y>>

\* print('Epoch {}, loss {:.4f}'.format(epoch, epoch_loss))
PrintEpoch ==
  /\ pc = "print"
  /\ out' = Append(out, [kind |-> "epoch", epoch |-> epoch, value |-> Format4f(epoch_loss)])
  /\ pc' = "append"
  /\ UNCHANGED <<samples, bg, label, params, h, layer, hg, prediction, rng,
                 trainset, testset, training, grads, loss, epoch, iter,
                 loader, indices, epoch_loss, epoch_losses, calls, loss_hist,
                 error, test_bg, test_Y, probs_Y, sampled_Y, argmax_Y>>

\* epoch_losses.append(epoch_loss)
AppendLoss ==
  /\ pc = "append"
  /\ epoch_losses' = Append(epoch_losses, epoch_loss)
  /\ pc' = "for_epoch"
  /\ UNCHANGED <<samples, bg, label, params, h, layer, hg, prediction, rng,
                 trainset, testset, training, grads, loss, epoch, iter,
                 loader, indices, epoch_loss, out, calls, loss_hist, error,
                 test_bg, test_Y, probs_Y, sampled_Y, argmax_Y>>

\* the learning-curve cell reads epoch_losses
Plot ==
  /\ pc = "plot"
  /\ pc' = "model_eval"
  /\ UNCHANGED <<samples, bg, label, params, h, layer, hg, prediction, rng,
                 trainset, testset, training, grads, loss, epoch, iter,
                 loader, indices, epoch_loss, epoch_losses, out, calls,
                 loss_hist, error, test_bg, test_Y, probs_Y, sampled_Y,
                 argmax_Y>>

\* model.eval()
ModelEval ==
  /\ pc = "model_eval"
  /\ training' = FALSE
  /\ pc' = "test_batch"
  /\ UNCHANGED <<samples, bg, label, params, h, layer, hg, prediction, rng,
                 trainset, testset, grads, loss, epoch, iter, loader,
                 indices, epoch_loss, epoch_losses, out, calls, loss_hist,
                 error, test_bg, test_Y, probs_Y, sampled_Y, argmax_Y>>

\* test_X, test_Y = map(list, zip(*testset)); test_bg = dgl.batch(test_X);
\* test_Y = torch.tensor(test_Y).float().view(-1, 1)
TestBatch ==
  /\ pc = "test_batch"
  /\ test_bg' = dgl_batch([i \in 1..Len(testset) |-> GraphOf(testset[i][1])])
  /\ test_Y' = test_Y_tensor([i \in 1..Len(testset) |-> testset[i][2]])
  /\ pc' = "test_forward"
  /\ UNCHANGED <<samples, bg, label, params, h, layer, hg, prediction, rng,
                 trainset, testset, training, grads, loss, epoch, iter,
                 loader, indices, epoch_loss, epoch_losses, out, calls,
                 loss_hist, error, probs_Y, sampled_Y, argmax_Y>>

\* probs_Y = torch.softmax(model(test_bg), 1)
TestForward ==
  /\ pc = "test_forward"
  /\ \E r \in {model(params, test_bg)} :
       probs_Y' = torch_softmax(r.out) /\ test_bg' = r.g
  /\ pc' = "sample"
  /\ UNCHANGED <<samples, bg, label, params, h, layer, hg, prediction, rng,
                 trainset, testset, training, grads, loss, epoch, iter,
                 loader, indices, epoch_loss, epoch_losses, out, calls,
                 loss_hist, error, test_Y, sampled_Y, argmax_Y>>

\* sampled_Y = torch.multinomial(probs_Y, 1)
Sample ==
  /\ pc = "sample"
  /\ sampled_Y' = torch_multinomial(probs_Y, rng)
  /\ rng' = NextRng(rng)
  /\ pc' = "argmax"
  /\ UNCHANGED <<samples, bg, label, params, h, layer, hg, prediction,
                 trainset, testset, training, grads, loss, epoch, iter,
                 loader, indices, epoch_loss, epoch_losses, out, calls,
                 loss_hist, error, test_bg, test_Y, probs_Y, argmax_Y>>

\* argmax_Y = torch.max(probs_Y, 1)[1].view(-1, 1)
Argmax ==
  /\ pc = "argmax"
  /\ argmax_Y' = argmax_column(probs_Y)
  /\ pc' = "print_sampled"
  /\ UNCHANGED <<samples, bg, label, params, h, layer, hg, prediction, rng,
                 trainset, testset, training, grads, loss, epoch, iter,
                 loader, indices, epoch_loss, epoch_losses, out, calls,
                 loss_hist, error, test_bg, test_Y, probs_Y, sampled_Y>>

\* print('Accuracy of sampled predictions ...: {:.4f}%')
PrintSampled ==
  /\ pc = "print_sampled"
  /\ out' = Append(out, [kind |-> "sampled", value |-> Format4f(Accuracy(test_Y, sampled_Y))])
  /\ pc' = "print_argmax"
  /\ UNCHANGED <<samples, bg, label, params, h, layer, hg, prediction, rng,
                 trainset, testset, training, grads, loss, epoch, iter,
                 loader, indices, epoch_loss, epoch_losses, calls, loss_hist,
                 error, test_bg, test_Y, probs_Y, sampled_Y, argmax_Y>>

\* print('Accuracy of argmax predictions ...: {:4f}%')
PrintArgmax ==
  /\ pc = "print_argmax"
  /\ out' = Append(out, [kind |-> "argmax", value |-> Format6f(Accuracy(test_Y, argmax_Y))])
  /\ pc' = "done"
  /\ UNCHANGED <<samples, bg, label, params, h, layer, hg, prediction, rng,
                 trainset, testset, training, grads, loss, epoch, iter,
                 loader, indices, epoch_loss, epoch_losses, calls, loss_hist,
                 error, test_bg, test_Y, probs_Y, sampled_Y, argmax_Y>>

\* faulty variant: the exception is caught and the loop goes on to the next
\* minibatch
Raise_caught ==
  /\ pc \in {"next_batch", "forward", "loss", "backward", "step"}
  /\ pc = "next_batch" => loader.rest # <<>>
  /\ error' = pc
  /\ params' = params
  /\ pc' = "next_batch"
  /\ UNCHANGED <<samples, bg, label, h, layer, hg, prediction, rng, trainset,
                 testset, training, grads, loss, epoch, iter, loader,
                 indices, epoch_loss, epoch_losses, out, calls, loss_hist,
                 test_bg, test_Y, probs_Y, sampled_Y, argmax_Y>>

\* a step of a minibatch raises: nothing catches the exception, the cell stops
\* (an optimizer step that raises may have updated the parameters or not)
Raise ==
  /\ pc \in {"next_batch", "forward", "loss", "backward", "step"}
  /\ pc = "next_batch" => loader.rest # <<>>
  /\ error' = pc
  /\ params' \in IF pc = "step" THEN {params, AdamStep(params, grads)} ELSE {params}
  /\ pc' = "raised"
  /\ UNCHANGED <<samples, bg, label, h, layer, hg, prediction, rng, trainset,
                 testset, training, grads, loss, epoch, iter, loader,
                 indices, epoch_loss, epoch_losses, out, calls, loss_hist,
                 test_bg, test_Y, probs_Y, sampled_Y, argmax_Y>>

Next ==
  \/ ForEpoch
  \/ ResetLoss
  \/ IterLoader
  \/ NextBatch
  \/ LoaderExhausted
  \/ Forward
  \/ Loss
  \/ OptimizerZeroGrad
  \/ Backward
  \/ OptimizerStep
  \/ Accumulate
  \/ Divide
  \/ PrintEpoch
  \/ AppendLoss
  \/ Plot
  \/ ModelEval
  \/ TestBatch
  \/ TestForward
  \/ Sample
  \/ Argmax
  \/ PrintSampled
  \/ PrintArgmax
  \/ Raise

Spec == Init /\ [][Next]_vars

(***************************************************************************)
(* Properties of collate and of the forward pass (checked under SpecFwd)   *)
(***************************************************************************)
\* the statements of Classifier.forward compose to the call model(bg)
StatementsCompose ==
  pc = "returned" =>
    LET r == model(params, collate(samples).bg)
    IN prediction = r.out /\ bg = r.g

\* C1: for a non-empty list of (graph, label) pairs collate returns one graph
\* made of exactly the input graphs in input order (node count = sum of the
\* node counts, component i = input graph i) and a label tensor of the same
\* length as the list with label i at position i.
C1_CollateKeepsPairs ==
  pc = "in_degrees" =>
    /\ bg.n = SumSeq([i \in 1..Len(samples) |-> samples[i][1].n])
    /\ Len(bg.bnn) = Len(samples)
    /\ Len(label) = Len(samples)
    /\ \A i \in 1..Len(samples) :
         /\ Component(bg, i) = samples[i][1]
         /\ label[i] = samples[i][2]

C1_Witness ==
  /\ pc = "in_degrees"
  /\ Len(samples) = 2
  /\ samples[1][1].n # samples[2][1].n
  /\ samples[1][2] # samples[2][2]
  /\ samples[2][1].inn[2] # {}

\* C2: the output row of graph i of a batch equals the output of
\* Classifier.forward on graph i alone, and so do the readout and the node
\* features left on the graph: nothing of one graph depends on another.
C2_BatchEqualsSingle ==
  pc = "returned" =>
    \A i \in 1..Len(samples) :
      LET single == Classifier_forward(params, samples[i][1], "asc")
      IN /\ prediction[i] = single.out[1]
         /\ hg[i] = mean_nodes(single.g, "h")[1]
         /\ Component(bg, i).ndata = single.g.ndata

C2_Witness ==
  /\ pc = "returned"
  /\ Len(samples) = 2
  /\ samples[1][1] # samples[2][1]
  /\ prediction[1] # prediction[2]
  /\ \E v \in 1..bg.n : bg.ndata.h[v][1] # 0

\* C7: after update_all the feature of every node with an incoming edge is
\* the average of the features its in-neighbours had on entry to GCN.forward
\* (h, the argument of the call), whatever the order of the visit; the linear
\* transform with activation is applied to every node after that.
EntryMessages(v) == [k \in 1..Cardinality(bg.inn[v]) |-> h[SortedSeq(bg.inn[v])[k]]]

C7_SynchronousAverage ==
  /\ pc = "apply_nodes" =>
       \A v \in 1..bg.n :
         IF bg.inn[v] = {} THEN bg.ndata.h[v] = h[v]
         ELSE RMulInt(Cardinality(bg.inn[v]), bg.ndata.h[v]) = RSum(EntryMessages(v))
  /\ pc = "pop" =>
       \A v \in 1..bg.n :
         LET a == IF bg.inn[v] = {} THEN h[v]
                  ELSE RDivInt(RSum(EntryMessages(v)), Cardinality(bg.inn[v]))
             m == params.layers[layer]
         IN bg.ndata.h[v] = relu(RAdd(RMulInt(m.w, a), FromInt(m.b)))

C7_Witness ==
  /\ pc = "pop"
  /\ layer = 2
  /\ \E v \in 1..bg.n : Cardinality(bg.inn[v]) >= 2
  /\ \E v \in 1..bg.n : bg.inn[v] = {}
  /\ \E v \in 1..bg.n : \E u \in bg.inn[v] : h[u] # h[v] /\ bg.ndata.h[v][1] > 0

\* C10: every GCN.forward call has 'h' on the graph from entry until it pops
\* it, so between the convolution layers (and after the last one) the graph
\* carries no 'h'; Classifier.forward then writes the final-layer features
\* to 'h' and leaves them there when it returns.
C10_FeatureFieldLifecycle ==
  /\ pc \in {"update_all", "apply_nodes", "pop"} => "h" \in DOMAIN bg.ndata
  /\ pc = "update_all" => bg.ndata.h = h
  /\ (pc = "set_h" /\ layer > 1) \/ pc = "write_h" => "h" \notin DOMAIN bg.ndata
  /\ pc \in {"mean_nodes", "classify", "returned"} =>
       /\ "h" \in DOMAIN bg.ndata
       /\ bg.ndata.h = h
       /\ h = ApplyLayers(params.layers, collate(samples).bg,
                          InitialFeature(collate(samples).bg), "asc").out

C10_Witness ==
  /\ pc = "returned"
  /\ "h" \notin DOMAIN collate(samples).bg.ndata
  /\ \E v \in 1..bg.n : bg.ndata.h[v] # InitialFeature(bg)[v]

(***************************************************************************)
(* Properties of the training and evaluation cells (checked under Spec)    *)
(***************************************************************************)
\* the steps of a minibatch, in the order the loop body names them
StepNames == <<"batch", "forward", "loss", "zero_grad", "backward", "step">>

\* how many steps of the current minibatch are done when control is at p
StepsDone(p) ==
  CASE p = "forward"   -> 1
    [] p = "loss"      -> 2
    [] p = "zero_grad" -> 3
    [] p = "backward"  -> 4
    [] p = "step"      -> 5
    [] OTHER           -> 6

EpochLines == SelectSeq(out, LAMBDA l : l.kind = "epoch")

AfterTraining ==
  pc \in {"plot", "model_eval", "test_batch", "test_forward", "sample", "argmax",
          "print_sampled", "print_argmax", "done"}

\* C3: for every minibatch the steps run in the order forward, loss,
\* zero_grad, backward, step: step k has run for the current minibatch
\* exactly when the steps before it have; there is one optimizer step per
\* minibatch, and the gradients it uses are those of this minibatch's loss
\* alone, computed from this minibatch's forward pass.
C3_MinibatchOrder ==
  /\ error = None =>
       \A k \in 1..Len(StepNames) :
         calls[StepNames[k]] = IF k <= StepsDone(pc) THEN calls.batch ELSE calls.batch - 1
  /\ \A k \in 1..(Len(StepNames) - 1) :
       /\ calls[StepNames[k + 1]] <= calls[StepNames[k]]
       /\ calls[StepNames[k]] <= calls[StepNames[k + 1]] + 1
  /\ calls.batch <= calls.step + 1
  /\ pc = "step" =>
       /\ prediction = model(params, collate(SamplesAt(trainset, indices)).bg).out
       /\ loss = loss_func(prediction, label)
       /\ grads = GradOf(prediction, label)

C3_Witness ==
  /\ pc = "step"
  /\ calls.step >= 2
  /\ \E c \in 1..NumClasses : grads[c][1] # 0

\* C5: the parameters are written by the optimizer step only, and no step
\* writes the training set or the test set.
C5_SingleWriter ==
  [][ /\ (params' # params => pc = "step")
      /\ trainset' = trainset
      /\ testset' = testset ]_vars

C5_Witness ==
  /\ pc = "accumulate"
  /\ calls.step = 1
  /\ \E seed \in 0..MaxSeed :
       /\ trainset = MiniGCDataset(TrainSize, seed)
       /\ params # ParamSpace[(seed % Len(ParamSpace)) + 1]
  /\ "h" \in DOMAIN bg.ndata

\* C6: once a step of a minibatch has raised, nothing runs any more: control
\* stays at the raise, no state changes, the failing epoch has no log line
\* and no entry in epoch_losses, and when the failure was before the optimizer
\* step that minibatch has no optimizer step and the parameters are those of
\* before the failure.
C6_FailureStops ==
  /\ [](error # None =>
          /\ pc = "raised"
          /\ Len(EpochLines) = epoch
          /\ Len(epoch_losses) = epoch
          /\ Len(out) = epoch
          /\ calls.step = IF error = "next_batch" THEN calls.batch ELSE calls.batch - 1
          /\ calls.batch = BatchesPerEpoch * epoch + loader.n
          /\ error # "next_batch" => iter + 1 = loader.n)
  /\ [][ /\ (error # None => UNCHANGED vars)
         /\ (error = None /\ error' \notin {None, "step"} => params' = params) ]_vars

C6_Witness ==
  /\ error = "backward"
  /\ pc = "raised"
  /\ epoch = 1
  /\ iter = 2
  /\ calls.step = BatchesPerEpoch + 2

\* C8: the loss of an epoch is the sum of the losses of that epoch's
\* minibatches, from an accumulator reset at the start of the epoch, divided
\* by iter + 1, the number of minibatches of the epoch (10).
C8_EpochLossIsMean ==
  /\ pc = "iter_loader" => epoch_loss = FromInt(0)
  /\ pc = "next_batch" /\ error = None =>
       /\ Len(loss_hist) = loader.n
       /\ epoch_loss = RSum(loss_hist)
  /\ pc = "divide" =>
       /\ iter + 1 = BatchesPerEpoch
       /\ iter + 1 = 10
       /\ Len(loss_hist) = BatchesPerEpoch
       /\ epoch_loss = RSum(loss_hist)
  /\ pc \in {"print", "append"} =>
       RMulInt(BatchesPerEpoch, epoch_loss) = RSum(loss_hist)
  /\ pc = "for_epoch" /\ epoch # Unbound =>
       /\ Len(epoch_losses) = epoch + 1
       /\ RMulInt(BatchesPerEpoch, epoch_losses[epoch + 1]) = RSum(loss_hist)

C8_Witness ==
  /\ pc = "for_epoch"
  /\ Len(epoch_losses) = 3
  /\ epoch_losses[2] # epoch_losses[3]
  /\ loss_hist[1] # loss_hist[2]
  /\ RLess(FromInt(0), epoch_losses[3])

\* C9: the evaluation cell runs after the 80 epochs and all their optimizer
\* steps; the argmax accuracy it prints is 100 times the number of test
\* graphs whose largest output is at their label, divided by the number of
\* test graphs; the comparison is row by row between two columns of one
\* entry per test graph, so the value lies between 0 and 100.
CorrectArgmax ==
  LET logits == model(params, dgl_batch([i \in 1..Len(testset) |-> GraphOf(testset[i][1])])).out
  IN Cardinality({i \in 1..Len(testset) : ArgMax(logits[i]) = testset[i][2]})

C9_ArgmaxAccuracy ==
  /\ AfterTraining =>
       /\ error = None
       /\ epoch = NumEpochs - 1
       /\ Len(epoch_losses) = NumEpochs
       /\ calls.step = NumEpochs * BatchesPerEpoch
  /\ training = FALSE => AfterTraining
  /\ pc \in {"print_sampled", "print_argmax", "done"} =>
       /\ test_Y.shape = <<Len(testset), 1>>
       /\ argmax_Y.shape = <<Len(testset), 1>>
       /\ TensorEq(test_Y, argmax_Y).shape = <<Len(testset), 1>>
  /\ pc = "done" =>
       LET acc == Accuracy(test_Y, argmax_Y)
       IN /\ RMulInt(Len(testset), acc) = FromInt(100 * CorrectArgmax)
          /\ ~RLess(acc, FromInt(0))
          /\ ~RLess(FromInt(100), acc)
          /\ out[Len(out)] = [kind |-> "argmax", value |-> Format6f(acc)]

C9_Witness ==
  /\ pc = "done"
  /\ CorrectArgmax > 0
  /\ CorrectArgmax < Len(testset)

(***************************************************************************)
(* The epochs of a run (checked under Spec)                                *)
(***************************************************************************)
\* C4: a run without failure makes exactly 80 epochs: one line per epoch,
\* numbered 0, 1, ... 79 in order, printed after all the minibatches of its
\* epoch and before any minibatch of the next one, and once the loop is left
\* there are 80 lines and 80 entries of epoch_losses, entry k being the value
\* (printed with 4 decimals) of the line of epoch k.
C4_EpochLog ==
  LET lines == EpochLines
      n     == Len(lines)
  IN /\ n <= NumEpochs
     /\ Len(epoch_losses) <= n
     /\ n <= Len(epoch_losses) + 1
     /\ n > 0 => lines[n].epoch = n - 1
     /\ Len(epoch_losses) > 0 =>
          lines[Len(epoch_losses)].value = Format4f(epoch_losses[Len(epoch_losses)])
     /\ pc \in {"for_epoch", "done"} =>
          \A k \in 1..n : /\ lines[k].epoch = k - 1
                          /\ lines[k].value = Format4f(epoch_losses[k])
     /\ BatchesPerEpoch * n <= calls.step
     /\ calls.batch <= BatchesPerEpoch * (n + 1)
     /\ pc = "append" => /\ n = epoch + 1
                         /\ calls.step = BatchesPerEpoch * (epoch + 1)
     /\ AfterTraining => /\ n = NumEpochs
                         /\ Len(epoch_losses) = NumEpochs
                         /\ calls.batch = NumEpochs * BatchesPerEpoch
     /\ pc = "for_epoch" /\ error = None /\ Len(epoch_losses) < NumEpochs =>
          epoch = Len(epoch_losses) - 1 \/ (epoch = Unbound /\ epoch_losses = <<>>)

C4_Witness ==
  /\ pc = "done"
  /\ error = None
  /\ Len(epoch_losses) = NumEpochs
  /\ EpochLines[NumEpochs].epoch = NumEpochs - 1
  /\ EpochLines[1].epoch = 0

====
